---- MODULE Spec2Model ----
(***************************************************************************)
(* Nokshi storefront (src/app.py, src/models.py): the session cart, the    *)
(* checkout, the admin gate and the product catalogue, as a state machine. *)
(*                                                                         *)
(* Text is a sequence of one-character strings, so that strip(), lower(),  *)
(* replace(), int() and the f-strings of the source are computed and not   *)
(* assumed.  A float whose value is a whole number is modelled by that     *)
(* integer (prices 65.0 and 55.0 are 65 and 55).                           *)
(***************************************************************************)
EXTENDS Integers, Sequences, FiniteSets, TLC

\* ------------------------------------------------------------------ bounds
MaxProducts == 4      \* rows the Product table may hold
MaxOrders   == 1      \* rows the Order table may hold
MaxLines    == 2      \* line items a cart may hold
MaxQty      == 3      \* largest quantity a line item may reach
MaxClock    == 1      \* largest value read from the clock (seconds)

\* ------------------------------------------------------------ text helpers
Upper == <<"A","B","C","D","E","F","G","H","I","J","K","L","M",
           "N","O","P","Q","R","S","T","U","V","W","X","Y","Z">>
Lower == <<"a","b","c","d","e","f","g","h","i","j","k","l","m",
           "n","o","p","q","r","s","t","u","v","w","x","y","z">>
DigitChars == <<"0","1","2","3","4","5","6","7","8","9">>

\* str.lower() on one character
LowerChar(c) ==
    IF \E i \in 1..26 : Upper[i] = c
    THEN Lower[CHOOSE i \in 1..26 : Upper[i] = c]
    ELSE c

RECURSIVE LowerText(_)
\* str.lower()
LowerText(s) ==
    IF s = <<>> THEN <<>> ELSE <<LowerChar(Head(s))>> \o LowerText(Tail(s))

RECURSIVE Replace(_, _, _)
\* str.replace(old, new) for a one-character old
Replace(s, old, new) ==
    IF s = <<>> THEN <<>>
    ELSE (IF Head(s) = old THEN new ELSE <<Head(s)>>) \o Replace(Tail(s), old, new)

\* slugify(text): lower, " " -> "-", "/" -> "-", "&" -> "and", in that order
slugify(text) ==
    Replace(Replace(Replace(LowerText(text), " ", <<"-">>), "/", <<"-">>), "&", <<"a","n","d">>)

IsSpace(c) == c = " "

RECURSIVE LStrip(_)
LStrip(s) == IF s # <<>> /\ IsSpace(Head(s)) THEN LStrip(Tail(s)) ELSE s

RECURSIVE RStrip(_)
RStrip(s) ==
    IF s # <<>> /\ IsSpace(s[Len(s)]) THEN RStrip(SubSeq(s, 1, Len(s) - 1)) ELSE s

\* str.strip()
Strip(s) == RStrip(LStrip(s))

IsDigit(c) == \E i \in 1..10 : DigitChars[i] = c
DigitVal(c) == (CHOOSE i \in 1..10 : DigitChars[i] = c) - 1

RECURSIVE DigitsVal(_, _)
\* value of a run of decimal digits, most significant first
DigitsVal(s, acc) ==
    IF s = <<>> THEN acc ELSE DigitsVal(Tail(s), 10 * acc + DigitVal(Head(s)))

\* int(text) / float(text) on a signed whole-number literal: surrounding
\* blanks are ignored, one optional sign, then at least one digit; anything
\* else raises ValueError (ok = FALSE).
ParseNumber(text) ==
    LET t    == Strip(text)
        sgn  == IF t # <<>> /\ Head(t) = "-" THEN -1 ELSE 1
        body == IF t # <<>> /\ Head(t) \in {"-", "+"} THEN Tail(t) ELSE t
    IN  IF body # <<>> /\ \A i \in 1..Len(body) : IsDigit(body[i])
        THEN [ok |-> TRUE, val |-> sgn * DigitsVal(body, 0)]
        ELSE [ok |-> FALSE, val |-> 0]

\* float("nan"), kept as a reserved number that no input spells, so that it
\* can sit in a price column next to the whole numbers
NaN == -999

IsNaN(x) == x = NaN

\* x <= y on floats: False whenever one side is nan
FloatLE(x, y) == ~IsNaN(x) /\ ~IsNaN(y) /\ x <= y

\* x * y and x + y on floats: nan whenever one side is nan
FloatMul(x, y) == IF IsNaN(x) \/ IsNaN(y) THEN NaN ELSE x * y
FloatAdd(x, y) == IF IsNaN(x) \/ IsNaN(y) THEN NaN ELSE x + y

\* float(text): what ParseNumber reads, and "nan" in any case with an
\* optional sign; ValueError (ok = FALSE) otherwise
ParseFloat(text) ==
    LET t    == Strip(text)
        body == IF t # <<>> /\ Head(t) \in {"-", "+"} THEN Tail(t) ELSE t
    IN  IF LowerText(body) = <<"n","a","n">>
        THEN [ok |-> TRUE, val |-> NaN]
        ELSE ParseNumber(text)

RECURSIVE NatStr(_)
\* str(n) for n >= 0
NatStr(n) ==
    IF n < 10 THEN <<DigitChars[n + 1]>>
    ELSE NatStr(n \div 10) \o <<DigitChars[(n % 10) + 1]>>

\* a form field that the request does not carry
Absent == <<"(absent)">>

\* request.form.get(field, default)
FormGet(form, field, default) ==
    IF form[field] = Absent THEN default ELSE form[field]


\* ------------------------------------------------------------------- state
NumSessions == 2      \* browser sessions
NumWorkers  == 2      \* add-product requests that may be in flight at once
Sessions == 1..NumSessions
Workers  == 1..NumWorkers

VARIABLES
    products,     \* Product rows, in id order (models.py Product)
    orders,       \* Order rows, in id order (models.py Order)
    admins,       \* AdminUser rows, in id order (models.py AdminUser)
    cart,         \* session["cart"] of each session: line items in dict order
    admin_id,     \* session["admin_id"] of each session, None when not set
    now,          \* the last value read from the clock
    inflight,     \* per worker: the add-product request between its query and its commit
    request,      \* the request handled last: its session, endpoint, method and URL argument
    response      \* and the response it got

vars == <<products, orders, admins, cart, admin_id, now, inflight, request, response>>

None == 0             \* session.get("admin_id") when the key is not set
Idle == [busy |-> FALSE]

\* ------------------------------------------------------------------- texts
AdminName   == <<"a","d","m","i","n">>
DefaultPass == <<"n","o","k","s","h","i","1","2","3">>
NoSize      == <<"n","o","s","i","z","e">>
Saree       == <<"S","a","r","e","e">>
Salwar      == <<"S","a","l","w","a","r">>
SareeName   == <<"N","o","k","s","h","i"," ","H","a","n","d","l","o","o","m"," ","S","a","r","e","e">>
SalwarName  == <<"E","m","b","r","o","i","d","e","r","e","d"," ","S","a","l","w","a","r"," ",
                 "K","a","m","e","e","z">>

\* ------------------------------------------------------------ the database
\* werkzeug's generate_password_hash / check_password_hash: the hash is kept
\* as a tagged value that only the same password verifies against.
generate_password_hash(password) == [pbkdf2 |-> password]

\* check_password_hash that verifies any password
AnyPassword(hash, password) == TRUE

check_password_hash(hash, password) == hash = generate_password_hash(password)

\* Product.query.filter_by(slug=slug).first() finds a row
SlugExists(rows, slug) == \E i \in 1..Len(rows) : rows[i].slug = slug

\* InsertProduct on a table without the UNIQUE constraint
InsertProductUnchecked(rows, p) ==
    [ok |-> TRUE, rows |-> Append(rows, [p EXCEPT !.id = Len(rows) + 1])]

\* db.session.add(p); db.session.commit() on the Product table: the UNIQUE
\* constraint on slug (models.py:10) rejects a second row with the same slug
\* (IntegrityError), otherwise the row is stored under the next id.
InsertProduct(rows, p) ==
    IF SlugExists(rows, p.slug)
    THEN [ok |-> FALSE, rows |-> rows]
    ELSE [ok |-> TRUE,  rows |-> Append(rows, [p EXCEPT !.id = Len(rows) + 1])]

\* whether the store takes the row's price: a nan is kept by some stores and
\* refused by others (bound as NULL, against nullable=False of models.py:12),
\* and the settings that pick the store are not part of the source
StoreKeeps(p) == IF IsNaN(p.price) THEN BOOLEAN ELSE {TRUE}

\* db.session.add(p); db.session.commit() on a store that keeps the price or not
Commit(rows, p, kept) ==
    IF kept THEN InsertProduct(rows, p) ELSE [ok |-> FALSE, rows |-> rows]

NewProduct(name, slug, category, price) ==
    [id |-> 0, name |-> name, slug |-> slug, category |-> category,
     price |-> price, in_stock |-> TRUE]

\* the two demo rows of ensure_sample_products, slug = name.lower().replace(" ", "-")
Demo == << <<SareeName, Saree, 65>>, <<SalwarName, Salwar, 55>> >>
DemoProduct(i) ==
    NewProduct(Demo[i][1], Replace(LowerText(Demo[i][1]), " ", <<"-">>), Demo[i][2], Demo[i][3])

\* ensure_default_admin without the look-up
EnsureAdminAlways(rows) ==
    Append(rows, [id |-> Len(rows) + 1, username |-> AdminName,
                  password_hash |-> generate_password_hash(DefaultPass)])

\* ensure_default_admin(): insert "admin" unless a row with that username exists
ensure_default_admin(rows) ==
    IF \E i \in 1..Len(rows) : rows[i].username = AdminName
    THEN rows
    ELSE Append(rows, [id |-> Len(rows) + 1, username |-> AdminName,
                       password_hash |-> generate_password_hash(DefaultPass)])

\* ensure_sample_products(): insert the demo rows when the table is empty
ensure_sample_products(rows) ==
    IF Len(rows) = 0
    THEN InsertProduct(InsertProduct(rows, DemoProduct(1)).rows, DemoProduct(2)).rows
    ELSE rows

Req(sid, route, method, arg) ==
    [sid |-> sid, route |-> route, method |-> method, arg |-> arg]

\* a response: redirect(url_for(target)), render_template(target) or an error
\* status; flash is the message the request flashed, data what it computed
Redirect(target, flash) ==
    [kind |-> "redirect", status |-> 302, target |-> target, flash |-> flash, data |-> <<>>]
Render(template, flash) ==
    [kind |-> "render", status |-> 200, target |-> template, flash |-> flash, data |-> <<>>]
Abort(status) ==
    [kind |-> "abort", status |-> status, target |-> "", flash |-> "", data |-> <<>>]
NoResponse ==
    [kind |-> "none", status |-> 0, target |-> "", flash |-> "", data |-> <<>>]
With(resp, data) == [resp EXCEPT !.data = data]

Init ==
    /\ products = <<>>
    /\ orders = <<>>
    /\ admins = <<>>
    /\ cart = [s \in Sessions |-> <<>>]
    /\ admin_id = [s \in Sessions |-> None]
    /\ now = 0
    /\ inflight = [w \in Workers |-> Idle]
    /\ request = Req(0, "", "", 0)
    /\ response = NoResponse

\* the application has been created at least once, so it serves requests
Serving == Len(admins) > 0

\* create_app(): db.create_all(), ensure_default_admin(), ensure_sample_products();
\* a start of the application is recorded as a request of no session
create_app ==
    /\ admins' = ensure_default_admin(admins)
    /\ products' = ensure_sample_products(products)
    /\ request' = Req(0, "create_app", "", 0)
    /\ response' = NoResponse
    /\ UNCHANGED <<orders, cart, admin_id, now, inflight>>


\* ---------------------------------------------------------------- the shop
\* ShopListing without the in-stock filter
ShopListingAll(rows, category) ==
    LET shown(p) == category = Absent \/ category = <<>> \/ p.category = category
        hits     == SelectSeq(rows, shown)
    IN  [i \in 1..Len(hits) |-> hits[Len(hits) + 1 - i].id]

\* lines 53-57: the ids of the products in stock, of the selected category
\* when the query string names one ("if category:" skips an empty one),
\* newest first
ShopListing(rows, category) ==
    LET shown(p) == p.in_stock /\ (category = Absent \/ category = <<>> \/ p.category = category)
        hits     == SelectSeq(rows, shown)
    IN  [i \in 1..Len(hits) |-> hits[Len(hits) + 1 - i].id]

\* DetailProduct without the in-stock filter
DetailProductAny(rows, slug) ==
    IF \E i \in 1..Len(rows) : rows[i].slug = slug
    THEN rows[CHOOSE i \in 1..Len(rows) :
                 /\ rows[i].slug = slug
                 /\ \A j \in 1..(i - 1) : rows[j].slug # slug].id
    ELSE 0

\* Product.query.filter_by(slug=slug, in_stock=True).first(): the id of the
\* first such row, 0 when there is none
DetailProduct(rows, slug) ==
    IF \E i \in 1..Len(rows) : rows[i].slug = slug /\ rows[i].in_stock
    THEN rows[CHOOSE i \in 1..Len(rows) :
                 /\ rows[i].slug = slug /\ rows[i].in_stock
                 /\ \A j \in 1..(i - 1) : ~(rows[j].slug = slug /\ rows[j].in_stock)].id
    ELSE 0

\* the query strings and URLs the shop is asked for; a request records which
CategoryInputs == <<Absent, <<>>, Saree, Salwar>>
SlugInputs ==
    <<Replace(LowerText(SareeName), " ", <<"-">>),
      Replace(LowerText(SalwarName), " ", <<"-">>),
      <<"a","a","n","d","-","b">>,
      <<"x">>>>

\* GET /shop?category=<CategoryInputs[c]>; the response keeps the listed ids
\* (the category menu of lines 59-65 is drawn from the same in-stock rows)
products_view(s, c) ==
    /\ Serving
    /\ request' = Req(s, "products_view", "GET", c)
    /\ response' = With(Render("products.html", ""), ShopListing(products, CategoryInputs[c]))
    /\ UNCHANGED <<products, orders, admins, cart, admin_id, now, inflight>>

\* GET /product/<SlugInputs[n]>
product_detail(s, n) ==
    /\ Serving
    /\ request' = Req(s, "product_detail", "GET", n)
    /\ response' = IF DetailProduct(products, SlugInputs[n]) = 0
                   THEN Abort(404)
                   ELSE With(Render("product_detail.html", ""),
                             <<DetailProduct(products, SlugInputs[n])>>)
    /\ UNCHANGED <<products, orders, admins, cart, admin_id, now, inflight>>


\* -------------------------------------------------------------------- cart
\* f"{product_id}-{size or 'nosize'}"
CartKey(product_id, size) ==
    NatStr(product_id) \o <<"-">> \o (IF size = <<>> THEN NoSize ELSE size)

\* key in cart
InCart(c, key) == \E i \in 1..Len(c) : c[i].key = key

\* cart[key]
Line(c, key) == c[CHOOSE i \in 1..Len(c) : c[i].key = key]

\* cart[key]["qty"] = qty
SetQty(c, key, qty) ==
    [i \in 1..Len(c) |-> IF c[i].key = key THEN [c[i] EXCEPT !.qty = qty] ELSE c[i]]

\* DelKey that drops the first line item, whatever its key
DelFirst(c, key) == Tail(c)

\* del cart[key]
DelKey(c, key) == SelectSeq(c, LAMBDA item : item.key # key)

\* AddQty without the clamp to 1
AddQtyUnclamped(form) ==
    LET parsed == ParseNumber(FormGet(form, "qty", <<"1">>))
    IN  IF parsed.ok THEN parsed.val ELSE 1

\* the quantity add_to_cart works with: int(qty), 1 on ValueError, at least 1
AddQty(form) ==
    LET parsed == ParseNumber(FormGet(form, "qty", <<"1">>))
        qty    == IF parsed.ok THEN parsed.val ELSE 1
    IN  IF qty < 1 THEN 1 ELSE qty

\* (request.form.get("size") or "").strip()
AddSize(form) == Strip(FormGet(form, "size", <<>>))

\* AddLine that stores the added quantity over the one the cart holds
AddLineOverwrite(c, product, size, qty) ==
    LET key == CartKey(product.id, size)
    IN  IF InCart(c, key)
        THEN SetQty(c, key, qty)
        ELSE Append(c, [key |-> key, id |-> product.id, name |-> product.name,
                        price |-> product.price, size |-> size, qty |-> qty])

\* lines 97-109: the cart after adding qty of the product under its key
AddLine(c, product, size, qty) ==
    LET key == CartKey(product.id, size)
    IN  IF InCart(c, key)
        THEN SetQty(c, key, Line(c, key).qty + qty)
        ELSE Append(c, [key |-> key, id |-> product.id, name |-> product.name,
                        price |-> product.price, size |-> size, qty |-> qty])

RECURSIVE CartTotalOfPrices(_)
\* CartTotal without the quantities
CartTotalOfPrices(c) ==
    IF c = <<>> THEN 0 ELSE Head(c).price + CartTotalOfPrices(Tail(c))

RECURSIVE CartTotal(_)
\* sum(i["price"] * i["qty"] for i in cart.values())
CartTotal(c) ==
    IF c = <<>> THEN 0
    ELSE FloatAdd(CartTotal(SubSeq(c, 1, Len(c) - 1)), FloatMul(c[Len(c)].price, c[Len(c)].qty))

\* UpdateQty with the fallback of add_to_cart: 1 when the field does not parse
UpdateQtyDefaultOne(c, key, form) ==
    LET parsed == ParseNumber(FormGet(form, key, NatStr(Line(c, key).qty)))
    IN  IF parsed.ok THEN parsed.val ELSE 1

\* the quantity update_cart works with for one key: the field, or the current
\* quantity when the field is absent or does not parse
UpdateQty(c, key, form) ==
    LET parsed == ParseNumber(FormGet(form, key, NatStr(Line(c, key).qty)))
    IN  IF parsed.ok THEN parsed.val ELSE Line(c, key).qty

RECURSIVE UpdateLoop(_, _, _)
\* lines 124-134: for key in list(cart.keys()), delete or set the quantity
UpdateLoop(c, keys, form) ==
    IF keys = <<>> THEN c
    ELSE LET key == Head(keys)
             qty == UpdateQty(c, key, form)
         IN  UpdateLoop(IF qty <= 0 THEN DelKey(c, key) ELSE SetQty(c, key, qty),
                        Tail(keys), form)

Keys(c) == [i \in 1..Len(c) |-> c[i].key]
KeySet(c) == {c[i].key : i \in 1..Len(c)}

\* CartText without the line items whose product is out of stock by now
CartTextInStock(c) ==
    LET kept == SelectSeq(c, LAMBDA item : products[item.id].in_stock)
    IN  [i \in 1..Len(kept) |->
            <<kept[i].key, kept[i].id, kept[i].name, kept[i].price, kept[i].size, kept[i].qty>>]

\* str(cart): the line items in dict order, each with its key and its fields
CartText(c) ==
    [i \in 1..Len(c) |-> <<c[i].key, c[i].id, c[i].name, c[i].price, c[i].size, c[i].qty>>]

\* the model keeps carts within MaxLines line items of at most MaxQty each
CartInBounds(c) ==
    /\ Len(c) <= MaxLines
    /\ \A i \in 1..Len(c) : c[i].qty <= MaxQty

\* OutOfStock without the test
StockIgnored(product) == FALSE

\* "not product.in_stock" (line 84)
OutOfStock(product) == ~product.in_stock

\* POST /add-to-cart/<product_id>
add_to_cart(s, product_id, form) ==
    /\ Serving
    /\ request' = Req(s, "add_to_cart", "POST", product_id)
    /\ IF product_id \notin 1..Len(products)
       THEN /\ response' = Abort(404)
            /\ cart' = cart
       ELSE IF OutOfStock(products[product_id])
       THEN /\ response' = Redirect("products_view", "This item is out of stock.")
            /\ cart' = cart
       ELSE /\ cart' = [cart EXCEPT ![s] =
                            AddLine(cart[s], products[product_id], AddSize(form), AddQty(form))]
            /\ CartInBounds(cart'[s])
            /\ response' = Redirect("cart", "Added to cart.")
    /\ UNCHANGED <<products, orders, admins, admin_id, now, inflight>>

\* GET /cart
cart_view(s) ==
    /\ Serving
    /\ request' = Req(s, "cart", "GET", 0)
    /\ response' = With(Render("cart.html", ""), <<CartTotal(cart[s])>>)
    /\ UNCHANGED <<products, orders, admins, cart, admin_id, now, inflight>>

\* POST /update-cart; form maps "qty_<key>" (here: the key) to the submitted text
update_cart(s, form) ==
    /\ Serving
    /\ request' = Req(s, "update_cart", "POST", 0)
    /\ cart' = [cart EXCEPT ![s] = UpdateLoop(cart[s], Keys(cart[s]), form)]
    /\ CartInBounds(cart'[s])
    /\ response' = Redirect("cart", "Cart updated.")
    /\ UNCHANGED <<products, orders, admins, admin_id, now, inflight>>

\* ---------------------------------------------------------------- checkout
\* AllFilled that looks at the name alone
NameFilled(form) == Strip(FormGet(form, "name", <<>>)) # <<>>

\* all([name, email, phone, address]) on the trimmed fields
AllFilled(form) ==
    /\ Strip(FormGet(form, "name", <<>>)) # <<>>
    /\ Strip(FormGet(form, "email", <<>>)) # <<>>
    /\ Strip(FormGet(form, "phone", <<>>)) # <<>>
    /\ Strip(FormGet(form, "address", <<>>)) # <<>>

\* NewOrder without the column default of status
NewOrderNoStatus(id, form, c, total, created_at) ==
    [id |-> id,
     customer_name  |-> Strip(FormGet(form, "name", <<>>)),
     customer_email |-> Strip(FormGet(form, "email", <<>>)),
     customer_phone |-> Strip(FormGet(form, "phone", <<>>)),
     address        |-> Strip(FormGet(form, "address", <<>>)),
     items          |-> CartText(c),
     total_price    |-> total,
     status         |-> "",
     created_at     |-> created_at]

\* Order(...): lines 161-169, status from the column default
NewOrder(id, form, c, total, created_at) ==
    [id |-> id,
     customer_name  |-> Strip(FormGet(form, "name", <<>>)),
     customer_email |-> Strip(FormGet(form, "email", <<>>)),
     customer_phone |-> Strip(FormGet(form, "phone", <<>>)),
     address        |-> Strip(FormGet(form, "address", <<>>)),
     items          |-> CartText(c),
     total_price    |-> total,
     status         |-> "Pending",
     created_at     |-> created_at]

\* CartIsEmpty without the test
CartNeverEmpty(c) == FALSE

\* "not cart" (line 145)
CartIsEmpty(c) == c = <<>>

\* GET or POST /checkout; t is what datetime.utcnow() returns if it is called
checkout(s, method, form, t) ==
    /\ Serving
    /\ request' = Req(s, "checkout", method, 0)
    /\ IF CartIsEmpty(cart[s])
       THEN /\ response' = Redirect("products_view", "Your cart is empty.")
            /\ UNCHANGED <<orders, cart, now>>
       ELSE IF method = "POST" /\ ~AllFilled(form)
       THEN /\ response' = Redirect("checkout", "Please fill in all fields.")
            /\ UNCHANGED <<orders, cart, now>>
       ELSE IF method = "POST"
       THEN /\ Len(orders) < MaxOrders
            /\ t >= now
            /\ now' = t
            /\ orders' = Append(orders,
                   NewOrder(Len(orders) + 1, form, cart[s], CartTotal(cart[s]), t))
            /\ cart' = [cart EXCEPT ![s] = <<>>]
            /\ response' = With(Redirect("order_success", "Order placed! We will contact you to confirm."),
                                 <<Len(orders) + 1>>)
       ELSE /\ response' = With(Render("checkout.html", ""), <<CartTotal(cart[s])>>)
            /\ UNCHANGED <<orders, cart, now>>
    /\ UNCHANGED <<products, admins, admin_id, inflight>>


\* -------------------------------------------------------------- admin auth
\* is_admin that is satisfied by any session's admin identifier
AnyoneIsAdmin(s) == \E x \in Sessions : admin_id[x] # None

\* is_admin(): bool(session.get("admin_id"))
is_admin(s) == admin_id[s] # None

\* AdminUser.query.filter_by(username=username).first() and check_password
Authenticates(rows, username, password) ==
    \E i \in 1..Len(rows) :
        /\ rows[i].username = username
        /\ \A j \in 1..(i - 1) : rows[j].username # username
        /\ check_password_hash(rows[i].password_hash, password)

UserId(rows, username) == (CHOOSE i \in 1..Len(rows) : rows[i].username = username)

\* GET or POST /admin/login
admin_login(s, method, form) ==
    /\ Serving
    /\ request' = Req(s, "admin_login", method, 0)
    /\ LET username == Strip(FormGet(form, "username", <<>>))
           password == Strip(FormGet(form, "password", <<>>))
       IN  IF method = "POST" /\ Authenticates(admins, username, password)
           THEN /\ admin_id' = [admin_id EXCEPT ![s] = admins[UserId(admins, username)].id]
                /\ response' = Redirect("admin_dashboard", "Welcome, admin.")
           ELSE /\ admin_id' = admin_id
                /\ response' = Render("admin_login.html",
                                      IF method = "POST" THEN "Invalid credentials." ELSE "")
    /\ UNCHANGED <<products, orders, admins, cart, now, inflight>>

\* admin_logout that leaves the session as it is
LogoutKeepsSession(s) ==
    /\ Serving
    /\ request' = Req(s, "admin_logout", "GET", 0)
    /\ response' = Redirect("admin_login", "Logged out.")
    /\ UNCHANGED <<products, orders, admins, cart, admin_id, now, inflight>>

\* GET /admin/logout
admin_logout(s) ==
    /\ Serving
    /\ request' = Req(s, "admin_logout", "GET", 0)
    /\ admin_id' = [admin_id EXCEPT ![s] = None]
    /\ response' = Redirect("admin_login", "Logged out.")
    /\ UNCHANGED <<products, orders, admins, cart, now, inflight>>

\* ------------------------------------------------------------- admin views
\* require_admin_redirect(): the redirect, for a session that is not admin
LoginRedirect == Redirect("admin_login", "")

\* GET /admin
admin_dashboard(s) ==
    /\ Serving
    /\ request' = Req(s, "admin_dashboard", "GET", 0)
    /\ response' =
           IF ~is_admin(s) THEN LoginRedirect
           ELSE With(Render("admin_dashboard.html", ""),
                     <<Len(products), Len(orders),
                       Len(SelectSeq(orders, LAMBDA o : o.status = "Pending"))>>)
    /\ UNCHANGED <<products, orders, admins, cart, admin_id, now, inflight>>

\* float(price_raw), 0 on ValueError
ProductPrice(form) ==
    LET parsed == ParseFloat(Strip(FormGet(form, "price", <<"0">>)))
    IN  IF parsed.ok THEN parsed.val ELSE 0

ProductName(form)     == Strip(FormGet(form, "name", <<>>))
ProductCategory(form) == Strip(FormGet(form, "category", <<>>))

\* line 254 negated: the submission passes validation
ValidProduct(form) ==
    ~(ProductName(form) = <<>> \/ ProductCategory(form) = <<>> \/ FloatLE(ProductPrice(form), 0))

\* lines 257-259: the slug, given the rows the existence query sees and the
\* clock value t
ProductSlug(rows, name, t) ==
    IF SlugExists(rows, slugify(name))
    THEN slugify(name) \o <<"-">> \o NatStr(t)
    ELSE slugify(name)

\* lines 261-271: the row to insert
SubmittedProduct(rows, form, t) ==
    NewProduct(ProductName(form), ProductSlug(rows, ProductName(form), t),
               ProductCategory(form), ProductPrice(form))

\* products = Product.query.order_by(Product.id.desc()).all(): the ids listed
ListedIds(rows) == [i \in 1..Len(rows) |-> rows[Len(rows) + 1 - i].id]

\* GET or POST /admin/products, handled start to finish; t is what
\* datetime.utcnow() returns if it is called
admin_products(s, method, form, t) ==
    /\ Serving
    /\ request' = Req(s, "admin_products", method, 0)
    /\ IF ~is_admin(s)
       THEN /\ response' = LoginRedirect
            /\ UNCHANGED <<products, now>>
       ELSE IF method = "POST" /\ ValidProduct(form)
       THEN LET clock == IF SlugExists(products, slugify(ProductName(form))) THEN t ELSE now
                row   == SubmittedProduct(products, form, clock)
            IN  \E kept \in StoreKeeps(row) :
                   LET result == Commit(products, row, kept)
                   IN  /\ t >= now
                       /\ now' = clock
                       /\ result.ok => Len(products) < MaxProducts
                       /\ products' = result.rows
                       /\ response' = IF result.ok
                                      THEN With(Render("admin_products.html", "Product added."),
                                                ListedIds(result.rows))
                                      ELSE Abort(500)
       ELSE /\ response' = With(Render("admin_products.html",
                                       IF method = "POST"
                                       THEN "Name, category & valid price required." ELSE ""),
                                ListedIds(products))
            /\ UNCHANGED <<products, now>>
    /\ UNCHANGED <<orders, admins, cart, admin_id, inflight>>

\* POST /admin/products by an admin with a valid form, up to commit: worker w
\* has run lines 236-271 (the slug query included) and holds the row to insert
admin_products_query(w, s, form, t) ==
    /\ Serving
    /\ request' = Req(s, "admin_products", "POST", 0)
    /\ ~inflight[w].busy
    /\ is_admin(s)
    /\ ValidProduct(form)
    /\ t >= now
    /\ now' = IF SlugExists(products, slugify(ProductName(form))) THEN t ELSE now
    /\ inflight' = [inflight EXCEPT ![w] =
                        [busy |-> TRUE, sid |-> s, row |-> SubmittedProduct(products, form, now')]]
    /\ UNCHANGED <<products, orders, admins, cart, admin_id, response>>

\* lines 272-277 of the request worker w holds: commit, then render the list
admin_products_commit(w) ==
    /\ inflight[w].busy
    /\ \E kept \in StoreKeeps(inflight[w].row) :
           LET result == Commit(products, inflight[w].row, kept)
           IN  /\ result.ok => Len(products) < MaxProducts
               /\ products' = result.rows
               /\ response' = IF result.ok
                              THEN With(Render("admin_products.html", "Product added."),
                                        ListedIds(result.rows))
                              ELSE Abort(500)
    /\ request' = Req(inflight[w].sid, "admin_products", "POST", 0)
    /\ inflight' = [inflight EXCEPT ![w] = Idle]
    /\ UNCHANGED <<orders, admins, cart, admin_id, now>>

\* ToggleStock that marks the product out of stock, whatever it was
ToggleStockOff(rows, product_id) == [rows EXCEPT ![product_id].in_stock = FALSE]

\* product.in_stock = not product.in_stock (line 286) on the row with that id
ToggleStock(rows, product_id) ==
    [rows EXCEPT ![product_id].in_stock = ~rows[product_id].in_stock]

\* GET /admin/products/toggle/<product_id>
admin_toggle_stock(s, product_id) ==
    /\ Serving
    /\ request' = Req(s, "admin_toggle_stock", "GET", product_id)
    /\ IF ~is_admin(s)
       THEN /\ response' = LoginRedirect
            /\ products' = products
       ELSE IF product_id \notin 1..Len(products)
       THEN /\ response' = Abort(404)
            /\ products' = products
       ELSE /\ products' = ToggleStock(products, product_id)
            /\ response' = Redirect("admin_products", "Stock status updated.")
    /\ UNCHANGED <<orders, admins, cart, admin_id, now, inflight>>


\* ------------------------------------------------------------------ inputs
Methods     == {"GET", "POST"}
ClockValues == 0..MaxClock
ProductIds  == 1..(MaxProducts + 1)
ShopIds     == 1..(Len(Demo) + 1)    \* the seeded products and an id that is none

SizeInputs == {Absent, <<" ","M"," ">>}
QtyInputs  == {Absent, <<"0">>, <<"-","1">>, <<"x">>, <<"2">>}
CartForms  == [size : SizeInputs, qty : QtyInputs]

\* one submitted quantity (or none) per key of the cart
UpdateForms(c) == [KeySet(c) -> QtyInputs]
\* the same without the texts that are no number
NumericUpdateForms(c) == [KeySet(c) -> QtyInputs \ {<<"x">>}]

FieldInputs   == {Absent, <<" ">>, <<" ","J">>}
\* checkout forms: all four fields filled, or all but one
FilledForm    == [name |-> <<"J">>, email |-> <<"J">>, phone |-> <<"J">>, address |-> <<"J">>]
CheckoutForms ==
    {FilledForm} \cup
    {[FilledForm EXCEPT ![k] = v] : k \in {"name", "email", "phone", "address"}, v \in FieldInputs}

LoginForms == [username : {AdminName, <<"x">>}, password : {DefaultPass, <<"x">>}]

\* two names with the same slug "aand-b", and a blank one
NameInputs   == {<<"A","&"," ","b">>, <<"a","a","n","d","/","B">>, <<" ">>}
\* add-product forms with at most one field that fails validation
ValidForms   == [name : NameInputs \ {<<" ">>}, category : {Saree}, price : {<<"5">>}]
ProductForms ==
    ValidForms \cup {[f EXCEPT !.category = Absent] : f \in ValidForms}
               \cup {[f EXCEPT !.price = <<"x">>] : f \in ValidForms}
               \cup {[f EXCEPT !.name = <<" ">>] : f \in ValidForms}

\* a GET carries no form: every field is absent
NoCheckoutForm == [name |-> Absent, email |-> Absent, phone |-> Absent, address |-> Absent]
NoLoginForm    == [username |-> Absent, password |-> Absent]
NoProductForm  == [name |-> Absent, category |-> Absent, price |-> Absent]

\* ---------------------------------------------------------- specifications
Next ==
    \/ create_app
    \/ \E s \in Sessions, id \in ProductIds, f \in CartForms : add_to_cart(s, id, f)
    \/ \E s \in Sessions, c \in 1..Len(CategoryInputs) : products_view(s, c)
    \/ \E s \in Sessions, n \in 1..Len(SlugInputs) : product_detail(s, n)
    \/ \E s \in Sessions : cart_view(s)
    \/ \E s \in Sessions : \E f \in UpdateForms(cart[s]) : update_cart(s, f)
    \/ \E s \in Sessions : checkout(s, "GET", NoCheckoutForm, now)
    \/ \E s \in Sessions, f \in CheckoutForms, t \in ClockValues : checkout(s, "POST", f, t)
    \/ \E s \in Sessions : admin_login(s, "GET", NoLoginForm)
    \/ \E s \in Sessions, f \in LoginForms : admin_login(s, "POST", f)
    \/ \E s \in Sessions : admin_logout(s)
    \/ \E s \in Sessions : admin_dashboard(s)
    \/ \E s \in Sessions : admin_products(s, "GET", NoProductForm, now)
    \/ \E s \in Sessions, f \in ProductForms, t \in ClockValues : admin_products(s, "POST", f, t)
    \/ \E w \in Workers, s \in Sessions, f \in ProductForms, t \in ClockValues :
           admin_products_query(w, s, f, t)
    \/ \E w \in Workers : admin_products_commit(w)
    \/ \E s \in Sessions, id \in ProductIds : admin_toggle_stock(s, id)

\* the whole application
Spec == Init /\ [][Next]_vars

\* the session that shops in SpecCart and SpecCheckout: the first one
Shopper == CHOOSE s \in Sessions : \A x \in Sessions : s <= x
Keeper  == NumSessions  \* the session that logs in as admin in SpecCart and SpecAdmin

\* the cart: the shopper adds and updates over the seeded catalogue while the
\* keeper logs in and toggles stock
NextCart ==
    \/ create_app
    \/ \E id \in ShopIds, f \in CartForms : add_to_cart(Shopper, id, f)
    \/ cart_view(Shopper)
    \/ \E f \in NumericUpdateForms(cart[Shopper]) : update_cart(Shopper, f)
    \/ \E f \in LoginForms : admin_login(Keeper, "POST", f)
    \/ \E id \in ShopIds : admin_toggle_stock(Keeper, id)

SpecCart == Init /\ [][NextCart]_vars

\* the checkout: the shopper adds sizeless items, updates the cart and checks
\* out
PlainCartForms == [size : {Absent}, qty : QtyInputs]

NextCheckout ==
    \/ create_app
    \/ \E id \in ShopIds, f \in PlainCartForms : add_to_cart(Shopper, id, f)
    \/ cart_view(Shopper)
    \/ \E f \in UpdateForms(cart[Shopper]) : update_cart(Shopper, f)
    \/ checkout(Shopper, "GET", NoCheckoutForm, now)
    \/ \E f \in CheckoutForms, t \in ClockValues : checkout(Shopper, "POST", f, t)

SpecCheckout == Init /\ [][NextCheckout]_vars

\* the admin area: the keeper logs in and out, every session requests the
\* admin routes, with add-product requests handled start to finish or
\* interleaved between query and commit
NextAdmin ==
    \/ create_app
    \/ admin_login(Keeper, "GET", NoLoginForm)
    \/ \E f \in LoginForms : admin_login(Keeper, "POST", f)
    \/ \E s \in Sessions : admin_logout(s)
    \/ \E s \in Sessions : admin_dashboard(s)
    \/ \E s \in Sessions : admin_products(s, "GET", NoProductForm, now)
    \/ \E s \in Sessions, f \in ProductForms, t \in ClockValues : admin_products(s, "POST", f, t)
    \/ \E w \in Workers, s \in Sessions, f \in ProductForms, t \in ClockValues :
           admin_products_query(w, s, f, t)
    \/ \E w \in Workers : admin_products_commit(w)
    \/ \E s \in Sessions, id \in {1, MaxProducts + 1} : admin_toggle_stock(s, id)

SpecAdmin == Init /\ [][NextAdmin]_vars

\* the catalogue: the keeper logs in, adds products and toggles stock while
\* the shopper browses the shop and the application is started again
NextCatalog ==
    \/ create_app
    \/ \E f \in LoginForms : admin_login(Keeper, "POST", f)
    \/ \E f \in ValidForms, t \in ClockValues : admin_products(Keeper, "POST", f, t)
    \/ \E id \in ProductIds : admin_toggle_stock(Keeper, id)
    \/ \E c \in 1..Len(CategoryInputs) : products_view(Shopper, c)
    \/ \E n \in 1..Len(SlugInputs) : product_detail(Shopper, n)

SpecCatalog == Init /\ [][NextCatalog]_vars

\* the login: every session logs in and out and requests the admin routes
NextLogin ==
    \/ create_app
    \/ \E s \in Sessions : admin_login(s, "GET", NoLoginForm)
    \/ \E s \in Sessions, f \in LoginForms : admin_login(s, "POST", f)
    \/ \E s \in Sessions : admin_logout(s)
    \/ \E s \in Sessions : admin_dashboard(s)
    \/ \E s \in Sessions : admin_products(s, "GET", NoProductForm, now)
    \/ \E s \in Sessions, f \in ValidForms, t \in ClockValues : admin_products(s, "POST", f, t)
    \/ \E s \in Sessions, id \in {1, MaxProducts + 1} : admin_toggle_stock(s, id)

SpecLogin == Init /\ [][NextLogin]_vars

\* orders: the keeper adds a product, priced 5 or nan, and toggles its stock;
\* the shopper puts the added product in the cart, updates it and checks out
OrderIds      == {Len(Demo) + 1}
OrderForms    == {[size |-> Absent, qty |-> Absent]}
OrderUpdates(c) == [KeySet(c) -> {Absent, <<"0">>}]
OrderCheckouts  == {FilledForm, [FilledForm EXCEPT !.phone = <<" ">>]}
PricedForms   ==
    {[name |-> <<"a","a","n","d","/","B">>, category |-> Saree, price |-> p] :
        p \in {<<"5">>, <<"n","a","n">>}}
AdminForm     == [username |-> AdminName, password |-> DefaultPass]

NextOrders ==
    \/ create_app
    \/ \E id \in OrderIds, f \in OrderForms : add_to_cart(Shopper, id, f)
    \/ \E f \in OrderUpdates(cart[Shopper]) : update_cart(Shopper, f)
    \/ checkout(Shopper, "GET", NoCheckoutForm, now)
    \/ \E f \in OrderCheckouts : checkout(Shopper, "POST", f, now)
    \/ admin_login(Keeper, "POST", AdminForm)
    \/ admin_logout(Keeper)
    \/ \E f \in PricedForms : admin_products(Keeper, "POST", f, now)
    \/ \E id \in OrderIds : admin_toggle_stock(Keeper, id)

SpecOrders == Init /\ [][NextOrders]_vars

\* quantities: the shopper adds the first sample, with and without a size,
\* and asks for a product that is none, and updates the cart, with quantity
\* fields that int() refuses among them
BadQty     == {<<"x">>, <<>>, <<"1",".","5">>, <<"-">>}
QtyForms   == [size : SizeInputs, qty : BadQty \cup {<<" ","2">>}]
QtyUpdates(c) == [KeySet(c) -> BadQty \cup {Absent, <<"0">>, <<"+","3">>}]

NextQty ==
    \/ create_app
    \/ \E id \in {1, Len(Demo) + 1}, f \in QtyForms : add_to_cart(Shopper, id, f)
    \/ cart_view(Shopper)
    \/ \E f \in QtyUpdates(cart[Shopper]) : update_cart(Shopper, f)

SpecQty == Init /\ [][NextQty]_vars


\* ------------------------------------------------------------------ claims
\* a field that is empty after trimming: not sent, or nothing but blanks
Blank(text) == text = Absent \/ \A i \in 1..Len(text) : text[i] = " "

CheckoutFields == {"name", "email", "phone", "address"}
AnyCheckoutForm == CheckoutForms \cup {NoCheckoutForm}

RECURSIVE LineSum(_, _)
\* price x qty summed over the first n line items of c
LineSum(c, n) == IF n = 0 THEN 0 ELSE LineSum(c, n - 1) + c[n].price * c[n].qty

\* C1: a POST to checkout with a non-empty cart and name, email, phone and
\* address all non-empty after trimming adds exactly one Order, whose
\* total_price is the sum of price x qty over the cart as it was and whose
\* status is "Pending", and leaves the session cart empty.
C1_CheckoutCreatesOrder ==
    [][\A s \in Sessions, f \in CheckoutForms :
          (/\ request' = Req(s, "checkout", "POST", 0)
           /\ cart[s] # <<>>
           /\ \A k \in CheckoutFields : ~Blank(f[k]))
          => \A t \in ClockValues :
                checkout(s, "POST", f, t)
                => /\ Len(orders') = Len(orders) + 1
                   /\ SubSeq(orders', 1, Len(orders)) = orders
                   /\ orders'[Len(orders')].total_price = LineSum(cart[s], Len(cart[s]))
                   /\ orders'[Len(orders')].status = "Pending"
                   /\ cart'[s] = <<>>]_vars

\* an order for two line items, 2 x 65 + 1 x 55, has just been placed
C1_Witness ==
    /\ response.target = "order_success"
    /\ Len(orders) = 1
    /\ Len(orders[1].items) = 2
    /\ orders[1].total_price = 185
    /\ cart[Shopper] = <<>>

\* C2: a POST to checkout with a non-empty cart and at least one of the four
\* fields empty after trimming creates no Order, redirects back to the
\* checkout route and leaves the session cart as it was.
C2_BlankFieldNoOrder ==
    [][\A s \in Sessions, f \in CheckoutForms :
          (/\ request' = Req(s, "checkout", "POST", 0)
           /\ cart[s] # <<>>
           /\ \E k \in CheckoutFields : Blank(f[k]))
          => \A t \in ClockValues :
                checkout(s, "POST", f, t)
                => /\ orders' = orders
                   /\ response'.kind = "redirect"
                   /\ response'.target = "checkout"
                   /\ cart' = cart]_vars

\* a checkout with a blank field was turned back, the cart still filled
C2_Witness ==
    /\ response.flash = "Please fill in all fields."
    /\ response.target = "checkout"
    /\ cart[Shopper] # <<>>
    /\ orders = <<>>

\* C3: a checkout request, GET or POST with any form, made while the session
\* cart is empty creates no Order and redirects to the shop listing; and no
\* stored Order was ever made from an empty cart.
C3_EmptyCartNoOrder ==
    /\ [][\A s \in Sessions :
             (request'.sid = s /\ request'.route = "checkout" /\ cart[s] = <<>>)
             => \A m \in Methods, f \in AnyCheckoutForm, t \in ClockValues :
                   checkout(s, m, f, t)
                   => /\ orders' = orders
                      /\ response'.kind = "redirect"
                      /\ response'.target = "products_view"]_vars
    /\ [](\A i \in 1..Len(orders) : orders[i].items # <<>>)

\* a checkout on the emptied cart, after an order was placed, was sent to the shop
C3_Witness ==
    /\ response.flash = "Your cart is empty."
    /\ response.target = "products_view"
    /\ cart[Shopper] = <<>>
    /\ Len(orders) = 1

\* C5: in every reachable state every line item of every session's cart has
\* an integer quantity of at least 1.
C5_QtyAtLeastOne ==
    \A s \in Sessions : \A i \in 1..Len(cart[s]) :
        cart[s][i].qty \in Int /\ cart[s][i].qty >= 1

\* an update has just left a two-line cart behind
C5_Witness ==
    /\ response.flash = "Cart updated."
    /\ Len(cart[Shopper]) = 2
    /\ cart[Shopper][1].qty = 1


\* C6: adding an in-stock product whose key "{product_id}-{size or 'nosize'}"
\* the cart already holds creates no second line item: the cart keeps exactly
\* one line item under that key, with the previous quantity plus the clamped
\* added quantity.
C6_AddAccumulates ==
    [][\A s \in Sessions :
          (request'.sid = s /\ request'.route = "add_to_cart")
          => \A id \in {request'.arg}, f \in CartForms :
                (/\ id \in 1..Len(products)
                 /\ products[id].in_stock
                 /\ CartKey(id, AddSize(f)) \in KeySet(cart[s])
                 /\ add_to_cart(s, id, f))
                => LET key == CartKey(id, AddSize(f))
                   IN  /\ Len(cart'[s]) = Len(cart[s])
                       /\ Cardinality({i \in 1..Len(cart'[s]) : cart'[s][i].key = key}) = 1
                       /\ Line(cart'[s], key).qty = Line(cart[s], key).qty + AddQty(f)]_vars

\* product 1 in size M sits in the cart once, with the quantity of two adds
C6_Witness ==
    /\ response.flash = "Added to cart."
    /\ Len(cart[Shopper]) = 1
    /\ cart[Shopper][1].key = <<"1", "-", "M">>
    /\ cart[Shopper][1].qty = 3

\* C7: an add-to-cart request for an existing product whose in_stock flag is
\* false leaves the session cart unchanged, flashes "This item is out of
\* stock." and redirects to the shop listing, whatever size and qty it carries.
C7_OutOfStockRejected ==
    [][\A s \in Sessions :
          (request'.sid = s /\ request'.route = "add_to_cart")
          => \A id \in {request'.arg}, f \in CartForms :
                (/\ id \in 1..Len(products)
                 /\ ~products[id].in_stock
                 /\ add_to_cart(s, id, f))
                => /\ cart' = cart
                   /\ response' = Redirect("products_view", "This item is out of stock.")]_vars

\* an add was refused for a product that is out of stock, the cart not empty
C7_Witness ==
    /\ response.flash = "This item is out of stock."
    /\ request.route = "add_to_cart"
    /\ \E id \in 1..Len(products) : ~products[id].in_stock
    /\ cart[Shopper] # <<>>

\* C8: an update-cart request removes every key whose submitted quantity is 0
\* or negative; every key whose field is absent or holds a positive integer
\* stays, once, with its product id, name, price and size; a key whose field
\* is absent keeps its quantity too.
C8_UpdateRemovesNonPositive ==
    [][\A s \in Sessions :
          request' = Req(s, "update_cart", "POST", 0)
          => \A f \in NumericUpdateForms(cart[s]) :
                update_cart(s, f)
                => \A i \in 1..Len(cart[s]) :
                      LET old == cart[s][i]
                          n   == ParseNumber(f[old.key])
                          kept == {j \in 1..Len(cart'[s]) : cart'[s][j].key = old.key}
                      IN  /\ (f[old.key] # Absent /\ n.ok /\ n.val <= 0) => kept = {}
                          /\ (f[old.key] = Absent \/ (n.ok /\ n.val > 0))
                             => /\ Cardinality(kept) = 1
                                /\ \A j \in kept :
                                      /\ cart'[s][j].id = old.id
                                      /\ cart'[s][j].name = old.name
                                      /\ cart'[s][j].price = old.price
                                      /\ cart'[s][j].size = old.size
                                      /\ f[old.key] = Absent => cart'[s][j].qty = old.qty]_vars

\* an update has left one line item of product 2, which was added after
\* product 1 was out of stock, in the cart
C8_Witness ==
    /\ response.flash = "Cart updated."
    /\ Len(cart[Shopper]) = 1
    /\ cart[Shopper][1].qty = 2

\* C4: a request to an admin route (dashboard, product list, add product,
\* toggle stock) by a session that carries no admin identifier redirects to
\* the login route and leaves the Product table as it was.
C4_AdminGate ==
    [][\A s \in Sessions :
          (/\ request'.sid = s
           /\ request'.route \in {"admin_dashboard", "admin_products", "admin_toggle_stock"}
           /\ admin_id[s] = None)
          => ((\/ admin_dashboard(s)
               \/ admin_products(s, "GET", NoProductForm, now)
               \/ \E f \in ProductForms, t \in ClockValues : admin_products(s, "POST", f, t)
               \/ \E id \in ProductIds : admin_toggle_stock(s, id))
              => /\ response' = Redirect("admin_login", "")
                 /\ products' = products)]_vars

\* a session without admin identifier was sent to the login route while the
\* keeper is logged in
C4_Witness ==
    /\ response = Redirect("admin_login", "")
    /\ request.route = "admin_toggle_stock"
    /\ admin_id[request.sid] = None
    /\ admin_id[Keeper] # None

\* C9: after a product was created, a valid add-product submission of another
\* name with the same slug stores a second product whose slug differs from
\* every other slug: the first holding the plain slug, the second gets that
\* slug, a hyphen and a numeric timestamp.
C9_SameSlugBothStored ==
    [][\A s \in Sessions :
          (/\ request' = Req(s, "admin_products", "POST", 0)
           /\ admin_id[s] # None
           /\ products # <<>>)
          => \A f \in ValidForms, t \in ClockValues :
                (/\ products[Len(products)].name # Strip(f.name)
                 /\ slugify(products[Len(products)].name) = slugify(Strip(f.name))
                 /\ admin_products(s, "POST", f, t))
                => /\ Len(products') = Len(products) + 1
                   /\ \A i \in 1..Len(products) :
                         products'[i].slug # products'[Len(products')].slug
                   /\ products[Len(products)].slug = slugify(products[Len(products)].name)
                      => \E n \in ClockValues :
                            products'[Len(products')].slug
                                = slugify(Strip(f.name)) \o <<"-">> \o NatStr(n)]_vars

\* C10: in every reachable state no two Product rows have the same slug, also
\* when two add-product requests both query the slug before either commits.
C10_SlugsUnique ==
    \A i, j \in 1..Len(products) : i # j => products[i].slug # products[j].slug

\* a request that found its plain slug free is about to commit, and another
\* request has stored that slug in between
C10_Witness ==
    \E w \in Workers :
        /\ inflight[w].busy
        /\ inflight[w].row.slug = slugify(inflight[w].row.name)
        /\ SlugExists(products, inflight[w].row.slug)

\* C11: every add-product POST by an authenticated admin with a non-empty
\* name, a non-empty category and a price above 0 stores exactly one new
\* Product, in stock, and ends by rendering the product list, never in an
\* unhandled failure, whatever the catalogue holds and whatever the clock reads.
C11_ValidAddAlwaysStored ==
    [][\A s \in Sessions :
          (/\ request' = Req(s, "admin_products", "POST", 0)
           /\ admin_id[s] # None)
          => \A f \in ValidForms, t \in ClockValues :
                admin_products(s, "POST", f, t)
                => /\ Len(products') = Len(products) + 1
                   /\ SubSeq(products', 1, Len(products)) = products
                   /\ products'[Len(products')].in_stock
                   /\ response'.kind = "render"
                   /\ response'.target = "admin_products.html"]_vars

\* the fields of a Product row other than its stock flag
SameButStock(p, q) ==
    /\ p.id = q.id
    /\ p.name = q.name
    /\ p.slug = q.slug
    /\ p.category = q.category
    /\ p.price = q.price

\* C12: a toggle-stock request by an authenticated admin for an existing
\* product sets its in_stock flag to the opposite value and changes no other
\* field of it and no other product; the toggle-stock request that follows it
\* for the same product brings the Product table back to what it was.
C12_ToggleTwiceRestores ==
    [][\A s \in Sessions :
          (/\ request'.sid = s
           /\ request'.route = "admin_toggle_stock"
           /\ admin_id[s] # None
           /\ request'.arg \in 1..Len(products))
          => \A id \in {request'.arg} :
                admin_toggle_stock(s, id)
                => /\ Len(products') = Len(products)
                   /\ products'[id].in_stock = ~products[id].in_stock
                   /\ SameButStock(products'[id], products[id])
                   /\ \A i \in 1..Len(products) : i # id => products'[i] = products[i]
                   /\ admin_id'[s] # None
                   /\ id \in 1..Len(products')
                   /\ ToggleStock(products', id) = products]_vars

\* product 2 has just been toggled back in stock while product 1 is out
C12_Witness ==
    /\ request.route = "admin_toggle_stock"
    /\ request.arg = 2
    /\ response.flash = "Stock status updated."
    /\ Len(products) >= 2
    /\ products[2].in_stock
    /\ ~products[1].in_stock

\* the ids a listing response shows
Shown(resp) == {resp.data[i] : i \in 1..Len(resp.data)}

\* C13: whenever /shop was just served, with no category or an empty one
\* selected it lists exactly the products whose in_stock flag is true, and with
\* a category selected exactly those of them in that category; whenever
\* /product/<slug> was just asked for the slug of a product, it serves that
\* product if its flag is true and answers 404 if it is false.
C13_VisibleIffInStock ==
    /\ request.route = "products_view"
       => \A i \in 1..Len(products) :
             LET picked == CategoryInputs[request.arg]
                 fits   == picked \in {Absent, <<>>} \/ products[i].category = picked
             IN  products[i].id \in Shown(response) <=> (products[i].in_stock /\ fits)
    /\ request.route = "product_detail"
       => \A i \in 1..Len(products) :
             products[i].slug = SlugInputs[request.arg]
             => /\ products[i].in_stock  => response = With(Render("product_detail.html", ""),
                                                            <<products[i].id>>)
                /\ ~products[i].in_stock => response = Abort(404)

\* the page of the second seeded product was asked for while it is out of
\* stock, and the answer was 404
C13_Witness ==
    /\ request.route = "product_detail"
    /\ request.arg = 2
    /\ response = Abort(404)
    /\ Len(products) >= 2
    /\ products[2].slug = SlugInputs[2]
    /\ ~products[2].in_stock

\* no AdminUser row has this username
UnknownUser(username) == \A i \in 1..Len(admins) : admins[i].username # username

\* C14: a login POST whose username no AdminUser row has, and a login POST
\* with an existing username and a password other than that user's, end the
\* same way: the flash "Invalid credentials.", the login form rendered and not
\* a redirect, and every session's admin identifier as it was before.
C14_InvalidLoginSameOutcome ==
    [][\A s \in Sessions :
          request' = Req(s, "admin_login", "POST", 0)
          => \A f \in LoginForms :
                (/\ admin_login(s, "POST", f)
                 /\ \/ UnknownUser(Strip(f.username))
                    \/ (Strip(f.username) = AdminName /\ Strip(f.password) # DefaultPass))
                => /\ response' = Render("admin_login.html", "Invalid credentials.")
                   /\ admin_id' = admin_id]_vars

\* a session that is logged in has posted credentials that were turned down,
\* and is still logged in
C14_Witness ==
    /\ request.route = "admin_login"
    /\ request.method = "POST"
    /\ response = Render("admin_login.html", "Invalid credentials.")
    /\ admin_id[request.sid] # None

\* the AdminUser rows with username "admin"
AdminRows(rows) == {i \in 1..Len(rows) : rows[i].username = AdminName}

\* C15: every run of the startup sequence leaves exactly one AdminUser named
\* "admin"; a run that finds AdminUser rows adds none, a run that finds Product
\* rows adds none, and a run that finds no Product row stores the two samples.
C15_StartupIdempotent ==
    [][(request'.route = "create_app" /\ create_app)
       => /\ Cardinality(AdminRows(admins')) = 1
          /\ admins # <<>> => admins' = admins
          /\ products # <<>> => products' = products
          /\ products = <<>> => Len(products') = Len(Demo)]_vars

\* the application was started again after a product was added and the first
\* sample was toggled out of stock
C15_Witness ==
    /\ request.route = "create_app"
    /\ Len(products) = Len(Demo) + 1
    /\ ~products[1].in_stock
    /\ Cardinality(AdminRows(admins)) = 1

C17_BadQtyCoerced ==
    /\ [][\A s \in Sessions :
             (request'.sid = s /\ request'.route = "add_to_cart")
             => \A id \in {request'.arg}, f \in QtyForms :
                   (/\ f.qty \in BadQty
                    /\ id \in 1..Len(products)
                    /\ products[id].in_stock
                    /\ add_to_cart(s, id, f))
                   => LET key == CartKey(id, AddSize(f))
                          had == {i \in 1..Len(cart[s]) : cart[s][i].key = key}
                          has == {i \in 1..Len(cart'[s]) : cart'[s][i].key = key}
                      IN  /\ response' = Redirect("cart", "Added to cart.")
                          /\ Cardinality(has) = 1
                          /\ \A j \in has :
                                /\ had = {} => cart'[s][j].qty = 1
                                /\ \A i \in had : cart'[s][j].qty = cart[s][i].qty + 1]_vars
    /\ [][\A s \in Sessions :
             request' = Req(s, "update_cart", "POST", 0)
             => \A f \in QtyUpdates(cart[s]) :
                   update_cart(s, f)
                   => /\ response' = Redirect("cart", "Cart updated.")
                      /\ \A i \in 1..Len(cart[s]) :
                            f[cart[s][i].key] \in BadQty
                            => Cardinality({j \in 1..Len(cart'[s]) :
                                               cart'[s][j] = cart[s][i]}) = 1]_vars

\* an update has kept a line item of quantity 2 and dropped the other one
C17_Witness ==
    /\ request.route = "update_cart"
    /\ response.flash = "Cart updated."
    /\ Len(cart[Shopper]) = 1
    /\ cart[Shopper][1].qty = 2
    /\ cart[Shopper][1].size = <<"M">>

AdminRoutes == {"admin_dashboard", "admin_products", "admin_toggle_stock"}

\* C18: a session gets an admin identifier only by its own login POST with
\* the username of an AdminUser and that user's password; a logout request
\* succeeds whether or not the session has one, and leaves it without; and a
\* session without one is sent to the login route by every admin route, and
\* stays without.
C18_AdminOnlyBetweenLoginAndLogout ==
    [][\A s \in Sessions :
          /\ (admin_id[s] = None /\ admin_id'[s] # None)
             => /\ request' = Req(s, "admin_login", "POST", 0)
                /\ response' = Redirect("admin_dashboard", "Welcome, admin.")
                /\ \E f \in LoginForms :
                      /\ Strip(f.username) = AdminName
                      /\ Strip(f.password) = DefaultPass
                      /\ admin_login(s, "POST", f)
          /\ (request'.sid = s /\ request'.route = "admin_logout")
             => /\ admin_id'[s] = None
                /\ response' = Redirect("admin_login", "Logged out.")
                /\ \A x \in Sessions \ {s} : admin_id'[x] = admin_id[x]
          /\ (request'.sid = s /\ request'.route \in AdminRoutes /\ admin_id[s] = None)
             => /\ response' = Redirect("admin_login", "")
                /\ admin_id'[s] = None]_vars

\* products were added by an admin, every session is logged out by now, and
\* the keeper's request for the dashboard was sent to the login route
C18_Witness ==
    /\ request = Req(Keeper, "admin_dashboard", "GET", 0)
    /\ response = Redirect("admin_login", "")
    /\ Len(products) > Len(Demo)
    /\ \A s \in Sessions : admin_id[s] = None

\* x > 0 on floats: False for nan
Positive(x) == ~IsNaN(x) /\ x > 0

\* C19: every stored Order was made from a cart of at least one line item,
\* each with a quantity of at least 1 and a price above 0, and has a
\* total_price above 0.
C19_OrderTotalPositive ==
    \A i \in 1..Len(orders) :
        /\ orders[i].items # <<>>
        /\ \A k \in 1..Len(orders[i].items) :
              /\ orders[i].items[k][6] >= 1
              /\ Positive(orders[i].items[k][4])
        /\ Positive(orders[i].total_price)

\* C20: the stock flag is looked at by add-to-cart alone.  A toggle-stock
\* request leaves every cart as it was; an update-cart request keeps a line
\* item it has no field for, in stock or not; and a checkout POST that stores
\* an Order stores every line item of the cart in it, with its quantity, also
\* those whose product is out of stock by then.
C20_StockGatedAtAddOnly ==
    [][\A s \in Sessions :
          /\ (request'.sid = s /\ request'.route = "admin_toggle_stock")
             => cart' = cart
          /\ request' = Req(s, "update_cart", "POST", 0)
             => \A f \in OrderUpdates(cart[s]) :
                   update_cart(s, f)
                   => \A i \in 1..Len(cart[s]) :
                         f[cart[s][i].key] = Absent
                         => \E j \in 1..Len(cart'[s]) : cart'[s][j] = cart[s][i]
          /\ (request' = Req(s, "checkout", "POST", 0) /\ Len(orders') > Len(orders))
             => /\ response'.target = "order_success"
                /\ Len(orders'[Len(orders')].items) = Len(cart[s])
                /\ \A i \in 1..Len(cart[s]) :
                      \E k \in 1..Len(orders'[Len(orders')].items) :
                         /\ orders'[Len(orders')].items[k][1] = cart[s][i].key
                         /\ orders'[Len(orders')].items[k][2] = cart[s][i].id
                         /\ orders'[Len(orders')].items[k][6] = cart[s][i].qty]_vars

\* an order has just been placed for a product that is out of stock
C20_Witness ==
    /\ request.route = "checkout"
    /\ response.target = "order_success"
    /\ Len(orders) = 1
    /\ Len(orders[1].items) = 1
    /\ orders[1].items[1][2] \in 1..Len(products)
    /\ ~products[orders[1].items[1][2]].in_stock

====
